---- MODULE Spec2Model ----
(***************************************************************************)
(* Model of the product / project directory protocol of system.py:        *)
(* the directory scanner, the Product index (update, store, load, split,  *)
(* select) and the Context search path (connect, load, split, symbols,    *)
(* configure).                                                            *)
(*                                                                         *)
(* Text is modelled as sequences of one-character strings, so that the    *)
(* string operations of the source (join, split, strip, startswith,      *)
(* slicing, sorting) are computed and not assumed.  A factor path is a    *)
(* sequence of segments, a segment a sequence of characters.              *)
(***************************************************************************)
EXTENDS Integers, Sequences, FiniteSets, TLC

VARIABLES
    fs,                 \* the product directory: path -> [dir, marker]
    limit,              \* Product.limit
    projects,           \* Product.projects: identifier -> (path, protocol, ...)
    local,              \* Product.local: path -> (identifier, protocol, ...)
    contexts,           \* Product.contexts
    roots,              \* Product.roots
    files,              \* the index files of the cache directory
    built,              \* how the four tables were last produced
    stored,             \* the tables written by the last store()
    op,                 \* the last operation and its outcome
    index,              \* Context side: route -> the index files of that product
    product_sequence,   \* Context.product_sequence, as routes
    product_cache,      \* Context.instance_cache[('product', route)]
    project_keys,       \* the ('project', id) keys of instance_cache, in dict order
    project_cache,      \* Context.instance_cache[('project', id)]
    loaded,             \* whether Context.load ran after the last connect
    defines,            \* the projects whose infrastructure defines the symbol
    scan                \* the frame of a scan_product_directory call in progress

pvars == <<fs, limit, projects, local, contexts, roots, files, built, stored>>
cvars == <<index, product_sequence, product_cache, project_keys, project_cache,
           loaded, defines>>
svars == <<scan>>
vars == <<pvars, op, cvars, svars>>

-----------------------------------------------------------------------------
(* Bounds *)

\* the tight scan limit given to Product(route, limit)
TightLimit == 3
\* the largest number of explicit roots assigned to Product.roots
MaxRoots == 2

\* limit=1024*4, the default of Product.__init__ and scan_product_directory
DefaultLimit == 4096

-----------------------------------------------------------------------------
(* Text *)

SP == " "
NL == "\n"
DOT == "."

\* the characters of the model in code point order
Alphabet == <<NL, SP, "-", DOT, "/", "1", "2", "3", "a", "b", "c", "d", "e", "f",
              "h", "i", "l", "n", "o", "p", "r", "t", "x">>

CodePoint(c) == CHOOSE k \in 1..Len(Alphabet) : Alphabet[k] = c

IsSpace(c) == c \in {SP, NL}

\* str.startswith
startswith(s, p) == Len(p) <= Len(s) /\ SubSeq(s, 1, Len(p)) = p

\* s[n:]
SliceFrom(s, n) == SubSeq(s, n + 1, Len(s))

\* str < str: lexicographic by code point
RECURSIVE StrLess(_, _)
StrLess(s, t) ==
    IF t = <<>> THEN FALSE
    ELSE IF s = <<>> THEN TRUE
    ELSE IF Head(s) = Head(t) THEN StrLess(Tail(s), Tail(t))
    ELSE CodePoint(Head(s)) < CodePoint(Head(t))

\* sep.join(parts)
RECURSIVE join(_, _)
join(sep, parts) ==
    IF parts = <<>> THEN <<>>
    ELSE IF Len(parts) = 1 THEN parts[1]
    ELSE parts[1] \o sep \o join(sep, Tail(parts))

\* s.split(sep) for a one character separator: empty fields are kept
RECURSIVE SplitOnFrom(_, _, _)
SplitOnFrom(s, c, cur) ==
    IF s = <<>> THEN <<cur>>
    ELSE IF Head(s) = c THEN <<cur>> \o SplitOnFrom(Tail(s), c, <<>>)
    ELSE SplitOnFrom(Tail(s), c, Append(cur, Head(s)))

SplitOn(s, c) == SplitOnFrom(s, c, <<>>)

\* s.split(): fields separated by runs of whitespace, no empty field
RECURSIVE SplitWSFrom(_, _)
SplitWSFrom(s, cur) ==
    IF s = <<>> THEN (IF cur = <<>> THEN <<>> ELSE <<cur>>)
    ELSE IF IsSpace(Head(s))
         THEN (IF cur = <<>> THEN <<>> ELSE <<cur>>) \o SplitWSFrom(Tail(s), <<>>)
         ELSE SplitWSFrom(Tail(s), Append(cur, Head(s)))

split(s) == SplitWSFrom(s, <<>>)

\* s.strip()
RECURSIVE lstrip(_)
lstrip(s) == IF s /= <<>> /\ IsSpace(Head(s)) THEN lstrip(Tail(s)) ELSE s

RECURSIVE rstrip(_)
rstrip(s) ==
    IF s /= <<>> /\ IsSpace(s[Len(s)]) THEN rstrip(SubSeq(s, 1, Len(s) - 1)) ELSE s

strip(s) == rstrip(lstrip(s))

\* the set of sequences listing every member of S once
RECURSIVE Orderings(_)
Orderings(S) ==
    IF S = {} THEN {<<>>}
    ELSE UNION {{<<x>> \o r : r \in Orderings(S \ {x})} : x \in S}

seqset(q) == {q[k] : k \in 1..Len(q)}

-----------------------------------------------------------------------------
(* Factor paths (types.FactorPath): a sequence of segments *)

\* types.factor, the empty path
factor == <<>>

\* str(fp): the segments joined by '.'
str(fp) == join(<<DOT>>, fp)

\* types.factor@text: the segments of a '.' separated string
factor_at(text) == SplitOn(text, DOT)

\* fp/name
div(fp, name) == Append(fp, name)

\* fp.container, also fp ** 1
container(fp) == IF fp = <<>> THEN <<>> ELSE SubSeq(fp, 1, Len(fp) - 1)

\* ~fp: fp and its ancestors, nearest first, without the empty path
RECURSIVE invert(_)
invert(fp) == IF fp = <<>> THEN <<>> ELSE <<fp>> \o invert(container(fp))

\* whether fp strictly extends anc, segment by segment
Extends(fp, anc) == Len(anc) < Len(fp) /\ SubSeq(fp, 1, Len(anc)) = anc

\* fp < fp, the order list.sort() uses for the roots: segment by segment
RECURSIVE PathLess(_, _)
PathLess(p, q) ==
    IF q = <<>> THEN FALSE
    ELSE IF p = <<>> THEN TRUE
    ELSE IF Head(p) = Head(q) THEN PathLess(Tail(p), Tail(q))
    ELSE StrLess(Head(p), Head(q))

-----------------------------------------------------------------------------
(* The product directory *)

A == <<"a">>
B == <<"b">>
C == <<"c">>
BC == <<"b", "c">>
\* the name of the subdirectory that makes a directory a context: 'context'
CTX == <<"c", "o", "n", "t", "e", "x", "t">>

I1 == <<"i", "1">>
I2 == <<"i", "2">>
I3 == <<"i", "3">>
\* 'factors/polynomial-1', the one key of the protocols registry
Polynomial1 == <<"f", "/", "p", "-", "1">>

\* the fields of a protocol declaration file: identifier, protocol, extra fields
M1 == <<I1, Polynomial1>>
M2 == <<I2, Polynomial1>>
M3 == <<I3, Polynomial1, <<"x">>>>

\* read_protocol's None
None == <<>>

NoDir == [dir |-> FALSE, marker |-> None]
Dir(m) == [dir |-> TRUE, marker |-> m]

Dirs == {<<A>>, <<A, CTX>>, <<A, B>>, <<A, B, CTX>>, <<A, B, C>>, <<B>>}

\* what each directory of the trees considered may be
Allowed(d) ==
    CASE d = <<A>> -> {Dir(M2)}
      [] d = <<A, CTX>> -> {NoDir, Dir(M1)}
      [] d = <<A, B>> -> {NoDir, Dir(None), Dir(M2)}
      [] d = <<A, B, CTX>> -> {NoDir, Dir(M3)}
      [] d = <<A, B, C>> -> {NoDir, Dir(M1)}
      [] d = <<B>> -> {Dir(None), Dir(M1)}

Trees ==
    {t \in [Dirs -> {NoDir, Dir(None), Dir(M1), Dir(M2), Dir(M3)}] :
        \A d \in Dirs :
            /\ t[d] \in Allowed(d)
            /\ (t[d].dir /\ Len(d) > 1) => t[container(d)].dir}

\* (route//fp).fs_type() == 'directory'
IsDir(t, d) == d = <<>> \/ (d \in DOMAIN t /\ t[d].dir)

\* route.fs_iterfiles('directory') in one of the orders the system may list it
fs_iterfiles(t, d, rev) ==
    LET kids == {k \in DOMAIN t : t[k].dir /\ Len(k) = Len(d) + 1 /\ container(k) = d}
    IN  CHOOSE q \in Orderings(kids) :
            \A i, j \in 1..Len(q) :
                i < j => IF rev THEN PathLess(q[j], q[i]) ELSE PathLess(q[i], q[j])

\* Product.read_protocol with parse_protocol_declaration
read_protocol(t, d) == IF d \in DOMAIN t /\ t[d].dir THEN t[d].marker ELSE None

\* Product.check_context_status
check_context_status(t, d) ==
    IsDir(t, div(d, CTX)) /\ read_protocol(t, div(d, CTX)) /= None

-----------------------------------------------------------------------------
(* scan_product_directory, consumed by the loop of Product.update *)

HasDot(name) == \E k \in 1..Len(name) : name[k] = DOT

NoScan == [err |-> FALSE, i |-> 0, root |-> {}, context |-> {}, project |-> <<>>,
           stack |-> <<>>]

\* ('project', (p[0], (fp,) + p[1:]))
ProjectEntry(fp, p) == <<p[1], <<fp>> \o Tail(p)>>

\* the loop body reading the protocol of a context directory as well, and
\* emitting it as a project too
Inspect_contexts_as_projects(t, d, top, lim, st) ==
    IF st.i + 1 > lim THEN [st EXCEPT !.err = TRUE, !.i = st.i + 1]
    ELSE IF HasDot(d[Len(d)]) THEN [st EXCEPT !.i = st.i + 1]
    ELSE IF check_context_status(t, d)
    THEN [st EXCEPT !.i = st.i + 1,
                    !.root = IF top THEN @ \cup {d} ELSE @,
                    !.context = @ \cup {d},
                    !.project = IF read_protocol(t, d) /= None
                                THEN Append(@, ProjectEntry(d, read_protocol(t, d)))
                                ELSE @,
                    !.stack = Append(@, d)]
    ELSE IF read_protocol(t, d) /= None
    THEN [st EXCEPT !.i = st.i + 1,
                    !.root = IF top THEN @ \cup {d} ELSE @,
                    !.project = Append(@, ProjectEntry(d, read_protocol(t, d)))]
    ELSE [st EXCEPT !.i = st.i + 1]

\* one directory of a listing: the body of the loops at lines 80-97 and 102-118
Inspect(t, d, top, lim, st) ==
    IF st.i + 1 > lim THEN [st EXCEPT !.err = TRUE, !.i = st.i + 1]
    ELSE IF HasDot(d[Len(d)]) THEN [st EXCEPT !.i = st.i + 1]
    ELSE IF check_context_status(t, d)
    THEN [st EXCEPT !.i = st.i + 1,
                    !.root = IF top THEN @ \cup {d} ELSE @,
                    !.context = @ \cup {d},
                    !.stack = Append(@, d)]
    ELSE IF read_protocol(t, d) /= None
    THEN [st EXCEPT !.i = st.i + 1,
                    !.root = IF top THEN @ \cup {d} ELSE @,
                    !.project = Append(@, ProjectEntry(d, read_protocol(t, d)))]
    ELSE [st EXCEPT !.i = st.i + 1]

RECURSIVE ScanListing(_, _, _, _, _)
ScanListing(t, kids, top, lim, st) ==
    IF st.err \/ kids = <<>> THEN st
    ELSE ScanListing(t, Tail(kids), top, lim, Inspect(t, Head(kids), top, lim, st))

\* an explicit root emitted only when it is a context or a project
ScanRoot_emits_classified_only(t, fp, st) ==
    IF check_context_status(t, fp)
    THEN [st EXCEPT !.root = @ \cup {fp}, !.context = @ \cup {fp},
                    !.stack = Append(@, fp)]
    ELSE IF read_protocol(t, fp) /= None
    THEN [st EXCEPT !.root = @ \cup {fp},
                    !.project = Append(@, ProjectEntry(fp, read_protocol(t, fp)))]
    ELSE st

\* one explicit root: the body of the loop at lines 65-78
ScanRoot(t, fp, st) ==
    IF check_context_status(t, fp)
    THEN [st EXCEPT !.root = @ \cup {fp}, !.context = @ \cup {fp},
                    !.stack = Append(@, fp)]
    ELSE IF read_protocol(t, fp) /= None
    THEN [st EXCEPT !.root = @ \cup {fp},
                    !.project = Append(@, ProjectEntry(fp, read_protocol(t, fp)))]
    ELSE [st EXCEPT !.root = @ \cup {fp}]

RECURSIVE ScanRoots(_, _, _)
ScanRoots(t, rs, st) ==
    IF rs = <<>> THEN st ELSE ScanRoots(t, Tail(rs), ScanRoot(t, Head(rs), st))

\* the breadth first descent of the queued contexts, lines 99-118
RECURSIVE ScanStack(_, _, _, _)
ScanStack(t, rev, lim, st) ==
    IF st.err \/ st.stack = <<>> THEN st
    ELSE ScanStack(t, rev, lim,
            ScanListing(t, fs_iterfiles(t, Head(st.stack), rev), FALSE, lim,
                        [st EXCEPT !.stack = Tail(@)]))

\* rs: the explicit roots in the order the set is iterated
scan_product_directory(t, rs, rev, lim) ==
    ScanStack(t, rev, lim,
        IF rs /= <<>> THEN ScanRoots(t, rs, NoScan)
        ELSE ScanListing(t, fs_iterfiles(t, <<>>, rev), TRUE, lim, NoScan))

-----------------------------------------------------------------------------
(* Product: the four tables *)

EmptyDict == <<>>

\* dict(pairs): a later pair replaces an earlier one with the same key
dict(pairs) ==
    [k \in {pairs[i][1] : i \in 1..Len(pairs)} |->
        LET last == CHOOSE i \in 1..Len(pairs) :
                        /\ pairs[i][1] = k
                        /\ \A j \in 1..Len(pairs) : pairs[j][1] = k => j <= i
        IN  pairs[last][2]]

\* local = {v[0]: (k,) + v[1:] for k, v in projects.items()}
local_of(prj) ==
    [fp \in {prj[k][1] : k \in DOMAIN prj} |->
        LET k == CHOOSE k \in DOMAIN prj : prj[k][1] = fp
        IN  <<k>> \o Tail(prj[k])]

Tables == [projects |-> projects, local |-> local, contexts |-> contexts, roots |-> roots]

NoTables == [projects |-> EmptyDict, local |-> EmptyDict, contexts |-> {}, roots |-> {}]

\* local built from every scanned project, replaced ones included
local_of_pairs(pairs) ==
    [fp \in {pairs[i][2][1] : i \in 1..Len(pairs)} |->
        LET i == CHOOSE i \in 1..Len(pairs) : pairs[i][2][1] = fp
        IN  <<pairs[i][1]>> \o Tail(pairs[i][2])]

\* update building local from the scanned list instead of the projects dict
update_tables_local_from_list(t, rs, rev, lim) ==
    LET slots == scan_product_directory(t, rs, rev, lim)
    IN  [err |-> slots.err,
         projects |-> dict(slots.project),
         local |-> local_of_pairs(slots.project),
         contexts |-> slots.context,
         roots |-> slots.root]

\* the result of Product.update: the scan, then the replacement of the tables
update_tables(t, rs, rev, lim) ==
    LET slots == scan_product_directory(t, rs, rev, lim)
    IN  [err |-> slots.err,
         projects |-> dict(slots.project),
         local |-> local_of(dict(slots.project)),
         contexts |-> slots.context,
         roots |-> slots.root]

-----------------------------------------------------------------------------
(* Product.store: the three index files *)

Absent == <<>>
Present(content) == <<content>>

NoFiles == [cache |-> FALSE, PROJECTS |-> Absent, CONTEXTS |-> Absent, ROOTS |-> Absent]

\* ' '.join(map(str, (k,) + v)) + '\n'
project_line(k, v) == join(<<SP>>, <<k, str(v[1])>> \o Tail(v)) \o <<NL>>

\* prjseq.sort(key=SortKey): SortKey=operator.itemgetter(0) of a project tuple is
\* the identifier, and the identifiers of a dict differ
sort_projects(prj) ==
    CHOOSE q \in Orderings(DOMAIN prj) :
        \A i, j \in 1..Len(q) : i < j => StrLess(q[i], q[j])

\* ctxseq.sort(key=SortKey): SortKey=operator.itemgetter(0) of a factor path is its
\* first segment; paths with equal first segments keep the order in which the
\* set was iterated, which is any order
sort_contexts(ctx) ==
    {q \in Orderings(ctx) : \A i, j \in 1..Len(q) : i < j => ~StrLess(q[j][1], q[i][1])}

\* rootseq.sort()
sort_roots(rts) ==
    CHOOSE q \in Orderings(rts) :
        \A i, j \in 1..Len(q) : i < j => PathLess(q[i], q[j])

store_projects(prj) ==
    LET prjseq == sort_projects(prj)
    IN  [i \in 1..Len(prjseq) |-> project_line(prjseq[i], prj[prjseq[i]])]

store_contexts(ctxseq) == [i \in 1..Len(ctxseq) |-> str(ctxseq[i]) \o <<NL>>]

store_roots(rts) ==
    LET rootseq == sort_roots(rts)
    IN  join(<<NL>>, [i \in 1..Len(rootseq) |-> str(rootseq[i])])

\* the cache directory after store(): the three files written
store_files(tb, ctxseq) ==
    [cache |-> TRUE,
     PROJECTS |-> Present(store_projects(tb.projects)),
     CONTEXTS |-> Present(store_contexts(ctxseq)),
     ROOTS |-> Present(store_roots(tb.roots))]

-----------------------------------------------------------------------------
(* Product.load: the tables of the three index files *)

\* parse_project_index keeping the path and the protocol only
parse_project_index_two_fields(lines) ==
    [i \in 1..Len(lines) |->
        LET l == split(strip(lines[i]))
        IN  <<l[1], <<factor_at(l[2])>> \o SubSeq(l, 3, 3)>>]

\* parse_project_index
parse_project_index(lines) ==
    [i \in 1..Len(lines) |->
        LET l == split(strip(lines[i]))
        IN  <<l[1], <<factor_at(l[2])>> \o SubSeq(l, 3, Len(l))>>]

\* parse_context_index
parse_context_index(lines) == {factor_at(strip(lines[i])) : i \in 1..Len(lines)}

load_tables(f) ==
    LET prj == dict(parse_project_index(f.PROJECTS[1]))
        words == split(f.ROOTS[1])
    IN  [projects |-> prj,
         local |-> local_of(prj),
         contexts |-> parse_context_index(f.CONTEXTS[1]),
         roots |-> {factor_at(words[i]) : i \in 1..Len(words)}]

-----------------------------------------------------------------------------
(* Product.split *)

\* split's None
NoMatch == [match |-> FALSE, project |-> factor, rest |-> factor]
Match(pj, rest) == [match |-> TRUE, project |-> pj, rest |-> rest]

\* the test of split without the separator
split_candidates_no_separator(loc, fpath) ==
    {x \in DOMAIN loc : startswith(str(fpath), str(x))}

\* the members of local the loop of split may stop at:
\* suffix.startswith(xstr + '.')
split_candidates(loc, fpath) ==
    {x \in DOMAIN loc : startswith(str(fpath), str(x) \o <<DOT>>)}

\* what Product.split may return: the loop returns at the first member of
\* local, in the order of the dict, that passes the test
split_results(loc, fpath) ==
    IF fpath \in DOMAIN loc THEN {Match(fpath, factor)}
    ELSE IF split_candidates(loc, fpath) = {} THEN {NoMatch}
    ELSE {Match(x, factor_at(SliceFrom(str(fpath), Len(str(x)) + 1))) :
            x \in split_candidates(loc, fpath)}

-----------------------------------------------------------------------------
(* The Product operations *)

\* the last operation: its name, what it raised, and for a query its argument
\* and what it returned
NoArg == <<>>
NoRet == <<>>
Ok(name) == [name |-> name, err |-> "none", arg |-> NoArg, ret |-> NoRet]
Raised(name, err) == [name |-> name, err |-> err, arg |-> NoArg, ret |-> NoRet]
Returned(name, arg, ret) == [name |-> name, err |-> "none", arg |-> arg, ret |-> ret]
RaisedOn(name, arg, err) == [name |-> name, err |-> err, arg |-> arg, ret |-> NoRet]
Did(name) == op.name = name /\ op.err = "none"

NoneStored == [valid |-> FALSE, built |-> "new", tables |-> NoTables]

\* the explicit roots a caller may assign, as the command line entry does
RootCandidates == {<<A>>, <<A, B>>, <<C>>}

RootSets == {R \in SUBSET RootCandidates : 1 <= Cardinality(R) /\ Cardinality(R) <= MaxRoots}

\* no scan is in progress
ScanIdle ==
    scan = [pc |-> "idle", i |-> 0, stack |-> <<>>, rest |-> <<>>,
            listing |-> <<>>, class |-> <<>>, roots |-> {}, limit |-> 0]

\* no Context is in use
ContextIdle ==
    /\ index = EmptyDict
    /\ product_sequence = <<>>
    /\ product_cache = EmptyDict
    /\ project_keys = <<>>
    /\ project_cache = EmptyDict
    /\ loaded = FALSE
    /\ defines = {}

\* the limits a Product is constructed with
Limits == {TightLimit, DefaultLimit}

ProductInit ==
    /\ ScanIdle
    /\ fs \in Trees
    /\ limit \in Limits
    /\ projects = EmptyDict
    /\ local = EmptyDict
    /\ contexts = {}
    /\ roots = {}
    /\ files = NoFiles
    /\ built = "new"
    /\ stored = NoneStored
    /\ op = Ok("init")
    /\ ContextIdle

\* Product(route, limit): a new Product for the same route
New(lim) ==
    /\ built /= "new" \/ limit /= lim
    /\ limit' = lim
    /\ projects' = EmptyDict
    /\ local' = EmptyDict
    /\ contexts' = {}
    /\ roots' = {}
    /\ built' = "new"
    /\ op' = Ok("new")
    /\ UNCHANGED <<fs, files, stored, cvars, svars>>

\* Product.clear
Clear ==
    /\ built /= "new"
    /\ projects' = EmptyDict
    /\ local' = EmptyDict
    /\ contexts' = {}
    /\ roots' = {}
    /\ built' = "new"
    /\ op' = Ok("clear")
    /\ UNCHANGED <<fs, limit, files, stored, cvars, svars>>

\* pd.roots = set(types.factor@x for x in roots) on a new Product
SetRoots(R) ==
    /\ built = "new"
    /\ roots' = R
    /\ built' = "roots"
    /\ op' = Ok("roots")
    /\ UNCHANGED <<fs, limit, projects, local, contexts, files, stored, cvars, svars>>

\* update installing what was scanned before the limit was exceeded
Update_installs_partial(rs, rev) ==
    LET r == update_tables(fs, rs, rev, limit)
    IN  /\ projects' = r.projects
        /\ local' = r.local
        /\ contexts' = r.contexts
        /\ roots' = r.roots
        /\ built' = "update"
        /\ op' = IF r.err THEN Raised("update", "RuntimeError") ELSE Ok("update")
        /\ UNCHANGED <<fs, limit, files, stored, cvars, svars>>

\* Product.update
Update(rs, rev) ==
    LET r == update_tables(fs, rs, rev, limit)
    IN  /\ IF r.err
           THEN /\ op' = Raised("update", "RuntimeError")
                /\ UNCHANGED <<projects, local, contexts, roots, built>>
           ELSE /\ projects' = r.projects
                /\ local' = r.local
                /\ contexts' = r.contexts
                /\ roots' = r.roots
                /\ built' = "update"
                /\ op' = Ok("update")
        /\ UNCHANGED <<fs, limit, files, stored, cvars, svars>>

\* store writing the files and emptying the tables it wrote
Store_consumes_tables(ctxseq) ==
    /\ files' = store_files(Tables, ctxseq)
    /\ stored' = [valid |-> TRUE, built |-> built, tables |-> Tables]
    /\ projects' = EmptyDict
    /\ local' = EmptyDict
    /\ contexts' = {}
    /\ roots' = {}
    /\ op' = Ok("store")
    /\ UNCHANGED <<fs, limit, built, cvars, svars>>

\* Product.store
Store(ctxseq) ==
    /\ files' = store_files(Tables, ctxseq)
    /\ stored' = [valid |-> TRUE, built |-> built, tables |-> Tables]
    /\ op' = Ok("store")
    /\ UNCHANGED <<fs, limit, projects, local, contexts, roots, built, cvars, svars>>

\* load assigning each table as soon as its index file was read
Load_assigns_as_it_reads ==
    LET t == load_tables([files EXCEPT
                 !.PROJECTS = IF files.PROJECTS = Absent THEN Present(<<>>) ELSE @,
                 !.CONTEXTS = IF files.CONTEXTS = Absent THEN Present(<<>>) ELSE @,
                 !.ROOTS = IF files.ROOTS = Absent THEN Present(<<>>) ELSE @])
        p == files.PROJECTS /= Absent
        c == p /\ files.CONTEXTS /= Absent
        r == c /\ files.ROOTS /= Absent
    IN  /\ projects' = IF p THEN t.projects ELSE projects
        /\ local' = IF r THEN t.local ELSE local
        /\ contexts' = IF c THEN t.contexts ELSE contexts
        /\ roots' = IF r THEN t.roots ELSE roots
        /\ built' = IF r THEN "load" ELSE built
        /\ op' = IF r THEN Ok("load") ELSE Raised("load", "FileNotFoundError")
        /\ UNCHANGED <<fs, limit, files, stored, cvars, svars>>

\* Product.load
Load ==
    /\ IF Absent \in {files.PROJECTS, files.CONTEXTS, files.ROOTS}
       THEN /\ op' = Raised("load", "FileNotFoundError")
            /\ UNCHANGED <<projects, local, contexts, roots, built>>
       ELSE LET t == load_tables(files)
            IN  /\ projects' = t.projects
                /\ local' = t.local
                /\ contexts' = t.contexts
                /\ roots' = t.roots
                /\ built' = "load"
                /\ op' = Ok("load")
    /\ UNCHANGED <<fs, limit, files, stored, cvars, svars>>

ProductNext ==
    \/ \E lim \in Limits : New(lim)
    \/ Clear
    \/ \E R \in RootSets : SetRoots(R)
    \/ \E rs \in Orderings(roots), rev \in BOOLEAN : Update(rs, rev)
    \/ \E ctxseq \in sort_contexts(contexts) : Store(ctxseq)
    \/ Load

Spec == ProductInit /\ [][ProductNext]_vars

-----------------------------------------------------------------------------
(* Claims about the Product index *)

\* C1: after a store() of tables that update() built, a load() gives the
\* projects, local, contexts and roots tables that were stored
C1_RoundTrip ==
    (Did("load") /\ stored.valid /\ stored.built = "update")
        => Tables = stored.tables

\* a load of stored tables with a context, a project with an extra field,
\* and explicit roots one of which is neither a context nor a project
C1_Witness ==
    /\ Did("load")
    /\ stored.valid
    /\ stored.built = "update"
    /\ <<A, B>> \in contexts
    /\ I3 \in DOMAIN projects
    /\ roots = {<<A, B>>, <<C>>}

\* C2: after any clear(), load() or update(), local is the exact inverse of
\* projects: local[p] = (id, proto...) iff projects[id] = (p, proto...), and
\* both tables have the same number of entries
C2_Bijection ==
    /\ \A id \in DOMAIN projects :
        /\ projects[id][1] \in DOMAIN local
        /\ local[projects[id][1]] = <<id>> \o Tail(projects[id])
    /\ \A p \in DOMAIN local :
        /\ local[p][1] \in DOMAIN projects
        /\ projects[local[p][1]] = <<p>> \o Tail(local[p])
    /\ Cardinality(DOMAIN local) = Cardinality(DOMAIN projects)

\* an update that met one identifier in two directories and kept two projects
C2_Witness ==
    /\ Did("update")
    /\ Cardinality(DOMAIN projects) >= 2
    /\ fs[<<A, CTX>>] = Dir(M1)
    /\ fs[<<B>>] = Dir(M1)
    /\ roots = {<<A>>, <<B>>}

\* the number of subdirectories the walk of update() inspects when nothing stops it
Inspected ==
    (scan_product_directory(fs, CHOOSE rs \in Orderings(roots) : TRUE, FALSE,
                            DefaultLimit)).i

\* C7: an update() whose walk inspects more than limit subdirectories raises the
\* scan limit error and leaves the four tables as they were
C7_ScanLimit ==
    [][(op'.name = "update" /\ Inspected > limit)
         => (op'.err = "RuntimeError" /\ Tables' = Tables)]_vars

\* an update that raised on a Product holding loaded, non-empty tables
C7_Witness ==
    /\ op.name = "update"
    /\ op.err = "RuntimeError"
    /\ built = "load"
    /\ DOMAIN projects /= {}
    /\ contexts /= {}

-----------------------------------------------------------------------------
(* Product.split on the tables update() builds *)

\* the paths asked for
AB == <<"a", "b">>
Queries == {<<A>>, <<AB>>, <<A, B>>, <<A, BC>>, <<A, B, C>>, <<A, B, C, C>>,
            <<A, CTX>>, <<A, CTX, B>>, <<B>>, <<B, CTX>>, <<C>>}

\* Product.split
Split(fpath, r) ==
    /\ op' = Returned("split", fpath, r)
    /\ UNCHANGED <<pvars, cvars, svars>>

QueryNext ==
    \/ \E R \in RootSets : SetRoots(R)
    \/ \E rs \in Orderings(roots), rev \in BOOLEAN : Update(rs, rev)
    \/ \E fpath \in Queries : \E r \in split_results(local, fpath) : Split(fpath, r)

QuerySpec == ProductInit /\ [][QueryNext]_vars

\* C8: split(Q) returns (P, remainder) only for a registered project path P
\* with Q = P and an empty remainder, or with the segments of Q strictly
\* extending those of P and the remainder the extra segments; it returns the
\* no-match sentinel exactly when no registered path is Q or a segment prefix of Q
C8_SplitSegments ==
    Did("split") =>
        LET Q == op.arg
            r == op.ret
            qualifies == {P \in DOMAIN local : Q = P \/ Extends(Q, P)}
        IN  /\ r.match =>
                /\ r.project \in qualifies
                /\ r.rest = SubSeq(Q, Len(r.project) + 1, Len(Q))
            /\ ~r.match <=> qualifies = {}

\* "a.bc" asked of a Product holding the project "a.b": no match
C8_Witness ==
    /\ Did("split")
    /\ op.arg = <<A, BC>>
    /\ <<A, B>> \in DOMAIN local
    /\ ~op.ret.match

-----------------------------------------------------------------------------
(* Context: the connected products and the instance cache *)

Routes == {"X", "Y"}

\* what each directory of the products a Context connects may be: every
\* declaration has the identifier and protocol fields Context.load unpacks
M4 == <<I3, Polynomial1>>

ConnectedAllowed(d) ==
    CASE d = <<A>> -> {NoDir, Dir(M2)}
      [] d = <<A, CTX>> -> {NoDir, Dir(M1)}
      [] d = <<A, B>> -> {NoDir, Dir(None)}
      [] d = <<A, B, CTX>> -> {NoDir, Dir(M4)}
      [] d = <<A, B, C>> -> {NoDir, Dir(M2)}
      [] d = <<B>> -> {Dir(None), Dir(M1)}

ConnectedTrees ==
    {t \in [Dirs -> {NoDir, Dir(None), Dir(M1), Dir(M2), Dir(M4)}] :
        \A d \in Dirs :
            /\ t[d] \in ConnectedAllowed(d)
            /\ (t[d].dir /\ Len(d) > 1) => t[container(d)].dir}

\* the index files Product(route).update().store() leaves for a tree
index_of(t) ==
    LET tb == update_tables(t, <<>>, FALSE, DefaultLimit)
    IN  store_files(tb, CHOOSE q \in sort_contexts(tb.contexts) : TRUE)

\* the cache directories a route may hold: stored indexes, or none
Indexes == {index_of(t) : t \in ConnectedTrees} \cup {NoFiles}

\* Project(pd, id, fp, proto({})); the protocol instance is the Project's own
Project(route, id, fp, proto) ==
    [product |-> route, identifier |-> id, factor |-> fp, protocol |-> proto]

\* no Project: the None handed to inherit
NoProject == Project("none", <<>>, <<>>, <<>>)

\* the keys of dict(pairs) in dict order: each key where it was first inserted
RECURSIVE dict_keys(_)
dict_keys(pairs) ==
    IF pairs = <<>> THEN <<>>
    ELSE LET init == dict_keys(SubSeq(pairs, 1, Len(pairs) - 1))
             k == pairs[Len(pairs)][1]
         IN  IF k \in seqset(init) THEN init ELSE Append(init, k)

\* Product(route).load() as Context.connect runs it: the tables, and the order
\* of the projects dict
connect_load(f) ==
    [tables |-> load_tables(f), keys |-> dict_keys(parse_project_index(f.PROJECTS[1]))]

\* reversed(seq)
reversed(q) == [i \in 1..Len(q) |-> q[Len(q) + 1 - i]]

\* the keys of the protocols registry
protocols == {Polynomial1}

\* the (product, identifier) pairs the loops of Context.load visit, in order
RECURSIVE load_order(_, _)
load_order(pds, cache) ==
    IF pds = <<>> THEN <<>>
    ELSE [i \in 1..Len(cache[Head(pds)].keys) |-> <<Head(pds), cache[Head(pds)].keys[i]>>]
         \o load_order(Tail(pds), cache)

\* the loop body of Context.load over the visited pairs: st is the instance
\* cache (keys in dict order, the Project of each key) and what was raised
RECURSIVE load_loop(_, _, _)
load_loop(visits, cache, st) ==
    IF visits = <<>> \/ st.err /= "none" THEN st
    ELSE LET pd == visits[1][1]
             id == visits[1][2]
             v == cache[pd].tables.projects[id]
         IN  IF Len(v) /= 2 THEN [st EXCEPT !.err = "ValueError"]
             ELSE IF v[2] \notin protocols THEN [st EXCEPT !.err = "KeyError"]
             ELSE load_loop(Tail(visits), cache,
                    [keys |-> IF id \in seqset(st.keys) THEN st.keys
                              ELSE Append(st.keys, id),
                     projects |-> [k \in DOMAIN st.projects \cup {id} |->
                                     IF k = id THEN Project(pd, id, v[1], v[2])
                                     ELSE st.projects[k]],
                     err |-> "none"])

\* Context.load visiting the products in connection order
context_load_in_connection_order(pds, cache, keys, pjs) ==
    load_loop(load_order(pds, cache), cache,
              [keys |-> keys, projects |-> pjs, err |-> "none"])

\* Context.load
context_load(pds, cache, keys, pjs) ==
    load_loop(load_order(reversed(pds), cache), cache,
              [keys |-> keys, projects |-> pjs, err |-> "none"])

-----------------------------------------------------------------------------
(* Context.split *)

\* Product.split given a str, as Context.configure gives it: no key of local
\* equals a str, and str(fpath) is the text itself
split_text_results(loc, text) ==
    LET hits == {x \in DOMAIN loc : startswith(text, str(x) \o <<DOT>>)}
    IN  IF hits = {} THEN {NoMatch}
        ELSE {Match(x, factor_at(SliceFrom(text, Len(str(x)) + 1))) : x \in hits}

product_split(loc, q, istext) ==
    IF istext THEN split_text_results(loc, q) ELSE split_results(loc, q)

\* what Context.split raises or returns; project is the path Product.split matched
SplitRaised(err) ==
    [err |-> err, product |-> "none", project |-> factor, pj |-> NoProject,
     rest |-> factor]

\* Product.identifier_by_factor(fp)[0], or what the lookup, the unpacking or
\* import_protocol raises
identifier_by_factor(loc, fp) ==
    IF fp \notin DOMAIN loc THEN [err |-> "KeyError", id |-> <<>>]
    ELSE IF Len(loc[fp]) /= 2 THEN [err |-> "ValueError", id |-> <<>>]
    ELSE IF loc[fp][2] \notin protocols THEN [err |-> "KeyError", id |-> <<>>]
    ELSE [err |-> "none", id |-> loc[fp][1]]

\* Context.project(id), or the KeyError of the instance cache
context_project(pjs, id) ==
    IF id \in DOMAIN pjs THEN [err |-> "none", pj |-> pjs[id]]
    ELSE [err |-> "KeyError", pj |-> NoProject]

\* the last lines of Context.split: the identifier of the matched path in the
\* product that matched, then the Project cached for that identifier
split_finish(pd, loc, pjs, m) ==
    LET iid == identifier_by_factor(loc, m.project)
        pj == context_project(pjs, iid.id)
    IN  IF iid.err /= "none" THEN SplitRaised(iid.err)
        ELSE IF pj.err /= "none" THEN SplitRaised(pj.err)
        ELSE [err |-> "none", product |-> pd, project |-> m.project,
              pj |-> pj.pj, rest |-> m.rest]

\* the products whose Product.split is not None, as positions of the sequence
split_hits(pds, cache, q, istext) ==
    {i \in 1..Len(pds) : product_split(cache[pds[i]].tables.local, q, istext) /= {NoMatch}}

\* the loop of Context.split over reversed(product_sequence)
first_hit_reversed(pds, cache, q, istext) ==
    LET hits == split_hits(pds, cache, q, istext)
    IN  IF hits = {} THEN 0 ELSE CHOOSE i \in hits : \A j \in hits : i >= j

\* the loop of Context.split: the first product, in connection order, that matches
first_hit(pds, cache, q, istext) ==
    LET hits == split_hits(pds, cache, q, istext)
    IN  IF hits = {} THEN 0 ELSE CHOOSE i \in hits : \A j \in hits : i <= j

\* Context.split
context_split(pds, cache, pjs, q, istext) ==
    LET i == first_hit(pds, cache, q, istext)
    IN  IF i = 0 THEN {SplitRaised("LookupError")}
        ELSE {split_finish(pds[i], cache[pds[i]].tables.local, pjs, m) :
                m \in product_split(cache[pds[i]].tables.local, q, istext)}

-----------------------------------------------------------------------------
(* Project.itercontexts, Context.itercontexts, Context.symbols *)

\* Project.itercontexts: x/'context' for x in ~(self.factor ** 1), near to far
project_itercontexts(fp) ==
    LET stack == invert(container(fp))
    IN  [i \in 1..Len(stack) |-> div(stack[i], CTX)]

\* one step of the generator Context.itercontexts: the identifier of the context
\* path in the product of pj, then the Project cached for it
context_at(cache, pjs, pj, path) ==
    LET iid == identifier_by_factor(cache[pj.product].tables.local, path)
    IN  IF iid.err /= "none" THEN [err |-> iid.err, pj |-> NoProject]
        ELSE context_project(pjs, iid.id)

\* the loop with a break of Context.configure: the first Project that
\* Context.itercontexts generates, None when it generates nothing
leading_context(cache, pjs, pj) ==
    LET paths == project_itercontexts(pj.factor)
    IN  IF paths = <<>> THEN [err |-> "none", pj |-> NoProject]
        ELSE context_at(cache, pjs, pj, paths[1])

\* list(self.itercontexts(pj)): every context Project, near to far, or what the
\* first failing step raises
context_itercontexts(cache, pjs, pj) ==
    LET paths == project_itercontexts(pj.factor)
        got == [i \in 1..Len(paths) |-> context_at(cache, pjs, pj, paths[i])]
        bad == {i \in 1..Len(paths) : got[i].err /= "none"}
    IN  IF bad = {} THEN [err |-> "none", items |-> [i \in 1..Len(paths) |-> got[i].pj]]
        ELSE [err |-> got[CHOOSE i \in bad : \A j \in bad : i <= j].err, items |-> <<>>]

\* projects.reverse(); projects.append(pj): the maps given to ChainMap, in order
symbols_maps(items, pj) == Append(reversed(items), pj)

\* whether the infrastructure of a Project defines the symbol
Defines(defs, pj) == <<pj.product, pj.factor>> \in defs

\* ChainMap.__getitem__: the maps are searched from the first on, and the first
\* that has the key gives the value; NoProject when no map has it
chain_lookup(maps, defs) ==
    LET has == {i \in 1..Len(maps) : Defines(defs, maps[i])}
    IN  IF has = {} THEN NoProject
        ELSE maps[CHOOSE i \in has : \A j \in has : i <= j]

-----------------------------------------------------------------------------
(* Context.configure *)

\* 'factor-placeholder'
PLACEHOLDER ==
    <<"f", "a", "c", "t", "o", "r", "-", "p", "l", "a", "c", "e", "h", "o", "l", "d", "e", "r">>

\* text.count(ch)
RECURSIVE count(_, _)
count(text, ch) ==
    IF text = <<>> THEN 0
    ELSE (IF Head(text) = ch THEN 1 ELSE 0) + count(Tail(text), ch)

\* the sort key of ctxlist: str(k).count('.')
depth(k) == count(str(k), DOT)

\* the lists the first loops of configure may collect: the contexts of each
\* product of reversed(product_sequence), a set iterated in any order
RECURSIVE ctxlists(_, _)
ctxlists(pds, cache) ==
    IF pds = <<>> THEN {<<>>}
    ELSE {h \o t : h \in Orderings(cache[Head(pds)].tables.contexts),
                   t \in ctxlists(Tail(pds), cache)}

\* ctxlist left in the order in which it was collected
keep_order(ctxlist) == ctxlist

RECURSIVE sort_from(_, _)
sort_from(ctxlist, d) ==
    IF \A i \in 1..Len(ctxlist) : depth(ctxlist[i]) < d THEN <<>>
    ELSE SelectSeq(ctxlist, LAMBDA k : depth(k) = d) \o sort_from(ctxlist, d + 1)

\* ctxlist.sort(key=(lambda k: str(k).count('.'))): ascending, and stable
sort_by_depth(ctxlist) == sort_from(ctxlist, 0)

\* one call pj.protocol.inherit(ctxproto, ...): the pass, the context name of
\* the first pass, the Project whose protocol receives the call and the Project
\* whose protocol is handed to it (NoProject for None)
Inherit(pass, ctxname, pj, ctx) ==
    [pass |-> pass, ctx |-> ctxname, receiver |-> pj, parent |-> ctx]

\* the first loop over ctxlist: the calls made and what stopped the loop
RECURSIVE pass1(_, _, _, _)
pass1(ctxlist, pds, cache, pjs) ==
    IF ctxlist = <<>> THEN {[log |-> <<>>, err |-> "none"]}
    ELSE UNION {
        IF s.err /= "none" THEN {[log |-> <<>>, err |-> s.err]}
        ELSE LET a == leading_context(cache, pjs, s.pj)
             IN  IF a.err /= "none" THEN {[log |-> <<>>, err |-> a.err]}
                 ELSE {[log |-> <<Inherit(1, Head(ctxlist), s.pj, a.pj)>> \o r.log,
                        err |-> r.err] :
                          r \in pass1(Tail(ctxlist), pds, cache, pjs)} :
        s \in context_split(pds, cache, pjs,
                            str(div(div(Head(ctxlist), CTX), PLACEHOLDER)), TRUE)}

\* the second loop, over the projects of the instance cache in dict order
RECURSIVE pass2(_, _, _)
pass2(keys, cache, pjs) ==
    IF keys = <<>> THEN [log |-> <<>>, err |-> "none"]
    ELSE LET pj == pjs[Head(keys)]
             a == leading_context(cache, pjs, pj)
         IN  IF a.err /= "none" THEN [log |-> <<>>, err |-> a.err]
             ELSE LET r == pass2(Tail(keys), cache, pjs)
                  IN  [log |-> <<Inherit(2, factor, pj, a.pj)>> \o r.log, err |-> r.err]

\* Context.configure on a collected ctxlist: the inherit calls in order, and
\* the exception that ended it, if any
configure_results(ctxlist, pds, cache, keys, pjs) ==
    {IF r1.err /= "none" THEN r1
     ELSE LET r2 == pass2(keys, cache, pjs)
          IN  [log |-> r1.log \o r2.log, err |-> r2.err] :
        r1 \in pass1(sort_by_depth(ctxlist), pds, cache, pjs)}

-----------------------------------------------------------------------------
(* The Context operations *)

\* no Product is in use apart from those the Context connects
ProductIdle ==
    /\ fs = [d \in Dirs |-> NoDir]
    /\ limit = DefaultLimit
    /\ projects = EmptyDict
    /\ local = EmptyDict
    /\ contexts = {}
    /\ roots = {}
    /\ files = NoFiles
    /\ built = "new"
    /\ stored = NoneStored

\* Context(): an empty search path and an empty instance cache
ContextNew ==
    /\ product_sequence = <<>>
    /\ product_cache = EmptyDict
    /\ project_keys = <<>>
    /\ project_cache = EmptyDict
    /\ loaded = FALSE

ContextInit ==
    /\ ScanIdle
    /\ ProductIdle
    /\ index \in [Routes -> Indexes]
    /\ ContextNew
    /\ defines = {}
    /\ op = Ok("init")

\* connect without the test of the instance cache: every call makes a Product,
\* loads it and appends it
Connect_without_cache_test(route) ==
    /\ IF Absent \in {index[route].PROJECTS, index[route].CONTEXTS, index[route].ROOTS}
       THEN /\ op' = RaisedOn("Context.connect", route, "FileNotFoundError")
            /\ UNCHANGED <<product_sequence, product_cache, loaded>>
       ELSE /\ product_sequence' = Append(product_sequence, route)
            /\ product_cache' = [r \in DOMAIN product_cache \cup {route} |->
                                    IF r = route THEN connect_load(index[route])
                                    ELSE product_cache[r]]
            /\ loaded' = FALSE
            /\ op' = Returned("Context.connect", route, route)
    /\ UNCHANGED <<pvars, svars, index, project_keys, project_cache, defines>>

\* Context.connect
Connect(route) ==
    /\ IF route \in DOMAIN product_cache
       THEN /\ op' = Returned("Context.connect", route, route)
            /\ UNCHANGED <<product_sequence, product_cache, loaded>>
       ELSE IF Absent \in {index[route].PROJECTS, index[route].CONTEXTS, index[route].ROOTS}
       THEN /\ op' = RaisedOn("Context.connect", route, "FileNotFoundError")
            /\ UNCHANGED <<product_sequence, product_cache, loaded>>
       ELSE /\ product_sequence' = Append(product_sequence, route)
            /\ product_cache' = [r \in DOMAIN product_cache \cup {route} |->
                                    IF r = route THEN connect_load(index[route])
                                    ELSE product_cache[r]]
            /\ loaded' = FALSE
            /\ op' = Returned("Context.connect", route, route)
    /\ UNCHANGED <<pvars, svars, index, project_keys, project_cache, defines>>

\* Context.load
ContextLoad ==
    LET r == context_load(product_sequence, product_cache, project_keys, project_cache)
    IN  /\ project_keys' = r.keys
        /\ project_cache' = r.projects
        /\ loaded' = (r.err = "none")
        /\ op' = IF r.err = "none" THEN Ok("Context.load")
                 ELSE Raised("Context.load", r.err)
        /\ UNCHANGED <<pvars, svars, index, product_sequence, product_cache, defines>>

\* Context.split
ContextSplit(qpath) ==
    \E s \in context_split(product_sequence, product_cache, project_cache, qpath, FALSE) :
        /\ op' = [name |-> "Context.split", err |-> s.err, arg |-> qpath, ret |-> s]
        /\ UNCHANGED <<pvars, cvars, svars>>

\* Context.configure: what is recorded is the collected ctxlist and the
\* inherit calls made, in order
Configure ==
    \E ctxlist \in ctxlists(reversed(product_sequence), product_cache) :
        \E r \in configure_results(ctxlist, product_sequence, product_cache,
                                   project_keys, project_cache) :
            /\ op' = [name |-> "Context.configure", err |-> r.err,
                      arg |-> ctxlist, ret |-> r.log]
            /\ UNCHANGED <<pvars, cvars, svars>>

\* symbols whose reads leave the value found in the table of pj itself
Symbols_records_reads(id) ==
    LET pj == project_cache[id]
        r == context_itercontexts(product_cache, project_cache, pj)
        maps == symbols_maps(r.items, pj)
        from == chain_lookup(maps, defines)
    IN  /\ op' = IF r.err /= "none" THEN RaisedOn("Context.symbols", id, r.err)
                 ELSE Returned("Context.symbols", id, [maps |-> maps, from |-> from])
        /\ defines' = IF r.err = "none" /\ from /= NoProject
                       THEN defines \cup {<<pj.product, pj.factor>>} ELSE defines
        /\ UNCHANGED <<pvars, svars, index, product_sequence, product_cache,
                       project_keys, project_cache, loaded>>

\* Context.symbols(pj) for a cached Project, and the layer a read of the
\* symbol in the returned mapping takes its value from
Symbols(id) ==
    LET pj == project_cache[id]
        r == context_itercontexts(product_cache, project_cache, pj)
        maps == symbols_maps(r.items, pj)
    IN  /\ op' = IF r.err /= "none" THEN RaisedOn("Context.symbols", id, r.err)
                 ELSE Returned("Context.symbols", id,
                               [maps |-> maps, from |-> chain_lookup(maps, defines)])
        /\ UNCHANGED <<pvars, cvars, svars>>

\* the qualified paths asked of Context.split
ContextQueries == {<<A, CTX>>, <<A, B, C>>, <<B>>, <<B, C>>, <<C>>}

ContextNext ==
    \/ \E route \in Routes : Connect(route)
    \/ ContextLoad
    \/ \E qpath \in ContextQueries : ContextSplit(qpath)
    \/ Configure

ContextSpec == ContextInit /\ [][ContextNext]_vars

\* the indexes of products where a and a.b are contexts
NestedIndexes ==
    {index_of(t) : t \in {u \in ConnectedTrees :
        u[<<A, CTX>>].dir /\ u[<<A, B, CTX>>].dir /\ u[<<B>>] = Dir(None)}}

\* the projects whose infrastructure may define the symbol
SymbolLayers == Routes \X {<<A, CTX>>, <<A, B, CTX>>, <<A, B, C>>}

SymbolsInit ==
    /\ ScanIdle
    /\ ProductIdle
    /\ index \in [Routes -> NestedIndexes]
    /\ ContextNew
    /\ defines \in SUBSET SymbolLayers
    /\ op = Ok("init")

SymbolsNext ==
    \/ \E route \in Routes : Connect(route)
    \/ ContextLoad
    \/ \E id \in DOMAIN project_cache : Symbols(id)

SymbolsSpec == SymbolsInit /\ [][SymbolsNext]_vars

-----------------------------------------------------------------------------
(* Claims about the Context *)

\* C4: after connect() calls and a load(), every identifier declared by a
\* connected product has a cached Project, and that Project has the product
\* and the factor path of the earliest-connected product declaring it
C4_EarliestConnected ==
    Did("Context.load") =>
        \A i \in 1..Len(product_sequence) :
            \A id \in DOMAIN product_cache[product_sequence[i]].tables.projects :
                LET declaring == {j \in 1..Len(product_sequence) :
                        id \in DOMAIN product_cache[product_sequence[j]].tables.projects}
                    first == CHOOSE j \in declaring : \A k \in declaring : j <= k
                    pd == product_sequence[first]
                IN  /\ id \in DOMAIN project_cache
                    /\ project_cache[id].product = pd
                    /\ project_cache[id].factor = product_cache[pd].tables.projects[id][1]

\* a load() over two products that declare one identifier at different paths
C4_Witness ==
    /\ Did("Context.load")
    /\ Len(product_sequence) = 2
    /\ \E id \in DOMAIN product_cache[product_sequence[1]].tables.projects :
        /\ id \in DOMAIN product_cache[product_sequence[2]].tables.projects
        /\ product_cache[product_sequence[1]].tables.projects[id][1]
             /= product_cache[product_sequence[2]].tables.projects[id][1]

\* C5: with two products connected and loaded, a path that matches a project
\* path of the second product and none of the first makes Context.split return
\* the second product and a Project owned by it whose factor path is the
\* matched project path
C5_OwnedByMatchedProduct ==
    (/\ op.name = "Context.split"
     /\ loaded
     /\ Len(product_sequence) = 2
     /\ \E P \in DOMAIN product_cache[product_sequence[2]].tables.local :
            op.arg = P \/ Extends(op.arg, P)
     /\ \A P \in DOMAIN product_cache[product_sequence[1]].tables.local :
            ~(op.arg = P \/ Extends(op.arg, P)))
        => /\ op.err = "none"
           /\ op.ret.product = product_sequence[2]
           /\ op.ret.pj.product = product_sequence[2]
           /\ op.ret.pj.factor = op.ret.project

\* C6: Context.split returns the result of the first product, in connection
\* order, with a registered project path that is the path or a segment prefix of
\* it; it raises LookupError exactly when no connected product has one
C6_FirstInConnectionOrder ==
    op.name = "Context.split" =>
        LET hits == {i \in 1..Len(product_sequence) :
                \E P \in DOMAIN product_cache[product_sequence[i]].tables.local :
                    op.arg = P \/ Extends(op.arg, P)}
        IN  /\ (hits = {}) <=> (op.err = "LookupError")
            /\ op.err = "none" =>
                \E i \in hits :
                    /\ \A j \in hits : i <= j
                    /\ op.ret.product = product_sequence[i]
                    /\ op.ret.project \in DOMAIN product_cache[product_sequence[i]].tables.local
                    /\ op.arg = op.ret.project \/ Extends(op.arg, op.ret.project)
                    /\ op.ret.rest = SubSeq(op.arg, Len(op.ret.project) + 1, Len(op.arg))
            /\ (hits /= {} /\ loaded) => op.err = "none"

\* a split answered by the first of two products that both match the path
C6_Witness ==
    /\ op.name = "Context.split"
    /\ op.err = "none"
    /\ Len(product_sequence) = 2
    /\ op.ret.product = product_sequence[1]
    /\ \E P \in DOMAIN product_cache[product_sequence[2]].tables.local :
            op.arg = P \/ Extends(op.arg, P)

C10_NearestEnclosingParent ==
    op.name = "Context.configure" =>
        \A i \in 1..Len(op.ret) :
            op.ret[i].pass = 1 =>
                /\ op.ret[i].parent /= op.ret[i].receiver
                /\ IF Len(op.ret[i].ctx) = 1 THEN op.ret[i].parent = NoProject
                   ELSE op.ret[i].parent.factor = div(container(op.ret[i].ctx), CTX)

\* C3: a read of the symbol in the mapping Context.symbols(pj) returns takes its
\* value from the nearest layer that defines it: pj itself, then its contexts
\* from the nearest to the farthest; a symbol no layer defines is not found
C3_NearestLayerWins ==
    Did("Context.symbols") =>
        LET layers == reversed(op.ret.maps)
            defining == {i \in 1..Len(layers) : Defines(defines, layers[i])}
        IN  IF defining = {} THEN op.ret.from = NoProject
            ELSE op.ret.from = layers[CHOOSE i \in defining : \A j \in defining : i <= j]

-----------------------------------------------------------------------------
(* Product.load on a cache directory with index files missing *)

\* the names of the index files
IndexFiles == {"PROJECTS", "CONTEXTS", "ROOTS"}

\* an index file of the cache directory is removed from outside the Product,
\* so that the next fs_open('tr') of it fails
Unlink(name) ==
    /\ files[name] /= Absent
    /\ files' = [files EXCEPT ![name] = Absent]
    /\ op' = Ok("unlink")
    /\ UNCHANGED <<fs, limit, projects, local, contexts, roots, built, stored, cvars, svars>>

IndexInit == ProductInit /\ limit = DefaultLimit

IndexNext ==
    \/ Clear
    \/ \E rs \in Orderings(roots), rev \in BOOLEAN : Update(rs, rev)
    \/ \E ctxseq \in sort_contexts(contexts) : Store(ctxseq)
    \/ \E name \in IndexFiles : Unlink(name)
    \/ Load

IndexSpec == IndexInit /\ [][IndexNext]_vars

\* C11: load() is all or nothing: with an index file absent it raises the
\* not-found error and leaves the four tables as they were; with the three
\* present it replaces the four tables by those of the index last stored
C11_LoadAllOrNothing ==
    [][op'.name = "load" =>
        IF \E name \in IndexFiles : files[name] = Absent
        THEN op'.err = "FileNotFoundError" /\ Tables' = Tables
        ELSE /\ op'.err = "none"
             /\ stored.valid
             /\ Tables' = stored.tables]_vars

\* a load() that raised with only the CONTEXTS file absent, on a Product whose
\* tables differ from those stored
C11_Witness ==
    /\ op.name = "load"
    /\ op.err = "FileNotFoundError"
    /\ files.PROJECTS /= Absent
    /\ files.CONTEXTS = Absent
    /\ files.ROOTS /= Absent
    /\ stored.valid
    /\ stored.tables /= Tables

-----------------------------------------------------------------------------
(* Claims about update() with explicit roots *)

\* C12: an update() that starts with a non-empty roots set R leaves roots = R,
\* members that are neither a context nor a project included, and registers
\* only paths that are in R or beneath a member of R that is a context; with
\* R = {p} and p a project directory it gives projects = {id: (p, protocol)},
\* contexts = {} and roots = {p}
C12_ExplicitRoots ==
    [][(op'.name = "update" /\ op'.err = "none" /\ roots /= {}) =>
        /\ roots' = roots
        /\ \A p \in contexts' \cup DOMAIN local' :
            p \in roots \/ \E r \in roots : r \in contexts' /\ Extends(p, r)
        /\ \A p \in roots :
            (roots = {p} /\ ~check_context_status(fs, p) /\ read_protocol(fs, p) /= None)
                => /\ DOMAIN projects' = {read_protocol(fs, p)[1]}
                   /\ projects'[read_protocol(fs, p)[1]] = <<p>> \o Tail(read_protocol(fs, p))
                   /\ contexts' = {}]_vars

\* an update() from the explicit roots a.b, a context, and c, which is neither
\* a context nor a project
C12_Witness ==
    /\ Did("update")
    /\ roots = {<<A, B>>, <<C>>}
    /\ <<A, B>> \in contexts
    /\ <<A, B, C>> \in DOMAIN local

-----------------------------------------------------------------------------
(* Claims about what store() writes *)

\* C13: store() writes the same three files for equal tables: the PROJECTS
\* lines ordered by identifier, the CONTEXTS lines ordered by the string form
\* of the context paths, the ROOTS entries sorted, whatever the order in which
\* the sets and the dictionary are iterated
C13_DeterministicStore ==
    Did("store") =>
        files = store_files(Tables,
                    CHOOSE q \in Orderings(contexts) :
                        \A i, j \in 1..Len(q) : i < j => StrLess(str(q[i]), str(q[j])))

-----------------------------------------------------------------------------
(* Product directories with look-alike names, and Product.select *)

\* a top-level directory whose name contains '.'
DottedName == <<"a", ".", "b">>

WideDirs == Dirs \cup {<<AB>>, <<DottedName>>}

\* the trees of Trees with, at the top level, a directory 'ab' and a directory
\* 'a.b' that may each be absent or a project directory
WideTrees ==
    {t \in [WideDirs -> {NoDir, Dir(None), Dir(M1), Dir(M2), Dir(M3)}] :
        /\ [d \in Dirs |-> t[d]] \in Trees
        /\ t[<<AB>>] \in {NoDir, Dir(M2)}
        /\ t[<<DottedName>>] \in {NoDir, Dir(M3)}}

\* select testing str(p).startswith(str(constraint))
select_no_separator(ctxs, loc, constraint) ==
    IF constraint \in ctxs
    THEN {p \in DOMAIN loc : startswith(str(p), str(constraint))}
    ELSE IF constraint \in DOMAIN loc THEN {constraint}
    ELSE IF Len(constraint) = 0 THEN DOMAIN loc
    ELSE {}

\* what Product.select yields
select(ctxs, loc, constraint) ==
    IF constraint \in ctxs
    THEN {p \in DOMAIN loc : startswith(str(p), str(constraint) \o <<DOT>>)}
    ELSE IF constraint \in DOMAIN loc THEN {constraint}
    ELSE IF Len(constraint) = 0 THEN DOMAIN loc
    ELSE {}

Constraints == {factor, <<A>>, <<A, B>>, <<A, B, C>>, <<A, CTX>>, <<AB>>, <<B>>, <<C>>}

\* Product.select, the generator run to its end
Select(constraint) ==
    /\ op' = Returned("select", constraint, select(contexts, local, constraint))
    /\ UNCHANGED <<pvars, cvars, svars>>

WideInit ==
    /\ ScanIdle
    /\ fs \in WideTrees
    /\ limit = DefaultLimit
    /\ projects = EmptyDict
    /\ local = EmptyDict
    /\ contexts = {}
    /\ roots = {}
    /\ files = NoFiles
    /\ built = "new"
    /\ stored = NoneStored
    /\ op = Ok("init")
    /\ ContextIdle

WideNext ==
    \/ Clear
    \/ \E R \in RootSets : SetRoots(R)
    \/ \E rs \in Orderings(roots), rev \in BOOLEAN : Update(rs, rev)
    \/ \E constraint \in Constraints : Select(constraint)

WideSpec == WideInit /\ [][WideNext]_vars

\* C14: select(constraint) yields the registered project paths that extend the
\* constraint by whole segments when it is a registered context, the
\* constraint alone when it is a registered project path, every registered
\* project path when it is the empty path, and nothing otherwise
C14_Select ==
    op.name = "select" =>
        op.ret = IF op.arg \in contexts THEN {p \in DOMAIN local : Extends(p, op.arg)}
                 ELSE IF op.arg \in DOMAIN local THEN {op.arg}
                 ELSE IF op.arg = factor THEN DOMAIN local
                 ELSE {}

\* a select of the context a that yields its projects and leaves out the
\* registered project ab
C14_Witness ==
    /\ Did("select")
    /\ op.arg = <<A>>
    /\ <<A>> \in contexts
    /\ <<AB>> \in DOMAIN local
    /\ <<A, B, C>> \in op.ret
    /\ <<AB>> \notin op.ret

-----------------------------------------------------------------------------
(* Claims about the search path *)

\* C15: the search path only grows at its end and never holds a route twice:
\* a connect() of a connected route returns the cached Product and changes
\* nothing, a connect() of a new route appends it last, and a connect() whose
\* load fails leaves the search path and the instance cache as they were
C15_AppendOnly ==
    [][/\ Len(product_sequence) <= Len(product_sequence')
       /\ SubSeq(product_sequence', 1, Len(product_sequence)) = product_sequence
       /\ \A i, j \in 1..Len(product_sequence') :
            product_sequence'[i] = product_sequence'[j] => i = j
       /\ op'.name = "Context.connect" =>
            IF op'.arg \in DOMAIN product_cache
            THEN /\ op'.err = "none"
                 /\ op'.ret = op'.arg
                 /\ product_sequence' = product_sequence
                 /\ product_cache' = product_cache
                 /\ project_cache' = project_cache
            ELSE IF op'.err /= "none"
            THEN /\ product_sequence' = product_sequence
                 /\ product_cache' = product_cache
                 /\ project_cache' = project_cache
            ELSE /\ product_sequence' = Append(product_sequence, op'.arg)
                 /\ DOMAIN product_cache' = DOMAIN product_cache \cup {op'.arg}
                 /\ \A r \in DOMAIN product_cache : product_cache'[r] = product_cache[r]]_vars

\* a second route was connected and stands last; the next state may be a
\* connect() of either route again
C15_Witness ==
    /\ Did("Context.connect")
    /\ Len(product_sequence) = 2
    /\ op.arg = product_sequence[2]
    /\ op.arg /= product_sequence[1]

-----------------------------------------------------------------------------
(* Claims about what the scanner discovers *)

\* C16: after an update() that started with no roots and completed, every
\* root is a path of one segment that names a directory at the top of the
\* product whose name has no '.', and every root is a registered context or a
\* registered project path
C16_DiscoveredRoots ==
    [][(op'.name = "update" /\ op'.err = "none" /\ roots = {}) =>
        \A r \in roots' :
            /\ Len(r) = 1
            /\ IsDir(fs, r)
            /\ ~HasDot(r[1])
            /\ r \in contexts' \/ r \in DOMAIN local']_vars

-----------------------------------------------------------------------------
(* scan_product_directory step by step, over directory structures whose
   listings may lead back to a directory already listed *)

\* the product route and the directories reachable from it
Route == 0
Entries == {1, 2}

\* fs_iterfiles('directory') of each directory: a directory may list itself
\* or a directory that lists it (links)
Listings == [{Route} \cup Entries -> SUBSET Entries]

\* whether the name of a directory holds '.', and what iscontext says of it
Classes == [Entries -> [dot : BOOLEAN, context : BOOLEAN]]

\* the limit argument
ScanLimits == {1, TightLimit}

FrameInit ==
    /\ ProductIdle
    /\ ContextIdle
    /\ op = Ok("init")
    /\ scan \in [pc : {"start"}, i : {0}, stack : {<<>>}, rest : {<<>>},
                 listing : Listings, class : Classes,
                 roots : {{}, {1}, {1, 2}}, limit : ScanLimits]

\* the roots loop, or the start of the loop over the listing of the route
FrameStart ==
    /\ scan.pc = "start"
    /\ IF scan.roots /= {}
       THEN \E q \in Orderings(scan.roots) :
                LET iscontext(d) == scan.class[d].context
                IN  scan' = [scan EXCEPT !.pc = "loop", !.stack = SelectSeq(q, iscontext)]
       ELSE \E q \in Orderings(scan.listing[Route]) :
                scan' = [scan EXCEPT !.pc = "loop", !.rest = q]
    /\ UNCHANGED <<pvars, op, cvars>>

\* one turn of a for loop over a listing: count the directory, raise past the
\* limit, skip a dotted name, queue a context
FrameInspect ==
    /\ scan.pc = "loop"
    /\ scan.rest /= <<>>
    /\ LET d == Head(scan.rest)
       IN  IF scan.i + 1 > scan.limit
           THEN /\ scan' = [scan EXCEPT !.pc = "raised", !.i = @ + 1]
                /\ op' = Raised("scan", "RuntimeError")
           ELSE /\ scan' = [scan EXCEPT
                        !.i = @ + 1,
                        !.rest = Tail(@),
                        !.stack = IF ~scan.class[d].dot /\ scan.class[d].context
                                  THEN Append(@, d) ELSE @]
                /\ UNCHANGED op
    /\ UNCHANGED <<pvars, cvars>>

\* the while loop reading the head of the stack and leaving it there
FramePop_without_popleft ==
    /\ scan.pc = "loop"
    /\ scan.rest = <<>>
    /\ scan.stack /= <<>>
    /\ \E q \in Orderings(scan.listing[Head(scan.stack)]) :
            scan' = [scan EXCEPT !.rest = q]
    /\ UNCHANGED <<pvars, op, cvars>>

\* while stack: current = stack.popleft(), and the listing of current
FramePop ==
    /\ scan.pc = "loop"
    /\ scan.rest = <<>>
    /\ scan.stack /= <<>>
    /\ \E q \in Orderings(scan.listing[Head(scan.stack)]) :
            scan' = [scan EXCEPT !.stack = Tail(@), !.rest = q]
    /\ UNCHANGED <<pvars, op, cvars>>

\* the stack is empty: the generator is exhausted
FrameReturn ==
    /\ scan.pc = "loop"
    /\ scan.rest = <<>>
    /\ scan.stack = <<>>
    /\ scan' = [scan EXCEPT !.pc = "done"]
    /\ op' = Ok("scan")
    /\ UNCHANGED <<pvars, cvars>>

FrameNext == FrameStart \/ FrameInspect \/ FramePop \/ FrameReturn

FrameSpec == FrameInit /\ [][FrameNext]_vars

\* the caller runs the generator to its end
FrameLiveSpec == FrameSpec /\ WF_vars(FrameNext)

\* C17: on every structure with finite listings, cyclic ones included, the
\* scan ends: it exhausts its queue having inspected at most limit
\* directories, or it raises the scan-limit error
C17_Terminates ==
    /\ <>(scan.pc \in {"done", "raised"})
    /\ [](scan.pc = "done" => scan.i <= scan.limit)
    /\ [](scan.pc = "raised" => op = Raised("scan", "RuntimeError"))

\* a scan of a context that lists itself ended with the scan-limit error
C17_Witness ==
    /\ scan.pc = "raised"
    /\ scan.roots = {}
    /\ 1 \in scan.listing[Route]
    /\ 1 \in scan.listing[1]
    /\ scan.class[1] = [dot |-> FALSE, context |-> TRUE]
    /\ scan.limit = TightLimit

\* C18: in the tables an update() produced, from no roots or from explicit
\* ones, no registered project path is a strict segment prefix of another
\* registered project path or of a registered context, so Product.split has
\* one possible result for every path
C18_ProjectsAreLeaves ==
    Did("update") =>
        /\ \A p \in DOMAIN local :
            \A q \in DOMAIN local \cup contexts : ~Extends(q, p)
        /\ \A fpath \in Queries : Cardinality(split_results(local, fpath)) = 1

-----------------------------------------------------------------------------
(* Claims about what update() and store() leave alone *)

\* C19: update() changes nothing but the four tables: the index files and the
\* cache directory stay as they were, whether it completes or raises; store()
\* writes the three files, makes the cache directory, and leaves the four
\* tables as they were
C19_Frames ==
    [][/\ op'.name = "update" =>
            /\ files' = files
            /\ fs' = fs
            /\ limit' = limit
       /\ op'.name = "store" =>
            /\ Tables' = Tables
            /\ files'.cache
            /\ \A name \in IndexFiles : files'[name] /= Absent
            /\ fs' = fs
            /\ limit' = limit]_vars

\* an update() that changed the tables after a store(): the files still hold
\* what was stored
C19_Witness ==
    /\ Did("update")
    /\ stored.valid
    /\ stored.tables /= Tables
    /\ files.cache
    /\ files.PROJECTS = Present(store_projects(stored.tables.projects))

-----------------------------------------------------------------------------
(* Claims about what Context.symbols leaves alone *)

\* C20: making the mapping of Context.symbols(pj) and reading the symbol in it
\* changes no infrastructure table, neither that of pj nor that of any
\* context project above it, and no cached Project
C20_SymbolsReadOnly ==
    [][op'.name = "Context.symbols" =>
        /\ defines' = defines
        /\ project_cache' = project_cache
        /\ product_cache' = product_cache]_vars

\* a read answered by a context project above pj, whose own table does not
\* define the symbol
C20_Witness ==
    /\ Did("Context.symbols")
    /\ op.ret.from /= NoProject
    /\ op.ret.from /= project_cache[op.arg]
    /\ ~Defines(defines, project_cache[op.arg])
    /\ Len(op.ret.maps) = 3

-----------------------------------------------------------------------------
(* Claims about the tables update() leaves *)

\* C21: in the tables of an update() that completed, no path is both a
\* registered context and a registered project path
C21_ContextOrProject ==
    Did("update") => contexts \cap DOMAIN local = {}

\* an update() from the roots a and a.b, both contexts: a.b is classified as a
\* root and again in the listing of a, and projects are registered beneath
C21_Witness ==
    /\ Did("update")
    /\ roots = {<<A>>, <<A, B>>}
    /\ contexts = {<<A>>, <<A, B>>}
    /\ <<A, B, C>> \in DOMAIN local

-----------------------------------------------------------------------------
(* The Context over products indexed by a full discovery, two project
   directories of one product declaring the same identifier included *)

DiscoveredAllowed(d) ==
    IF d = <<A, B, C>> THEN ConnectedAllowed(d) \cup {Dir(M1)} ELSE ConnectedAllowed(d)

DiscoveredTrees ==
    {t \in [Dirs -> {NoDir, Dir(None), Dir(M1), Dir(M2), Dir(M4)}] :
        \A d \in Dirs :
            /\ t[d] \in DiscoveredAllowed(d)
            /\ (t[d].dir /\ Len(d) > 1) => t[container(d)].dir}

\* the index files update() from no roots and store() leave for these trees
DiscoveredIndexes == {index_of(t) : t \in DiscoveredTrees}

DiscoveryInit ==
    /\ ScanIdle
    /\ ProductIdle
    /\ index \in [Routes -> DiscoveredIndexes]
    /\ ContextNew
    /\ defines = {}
    /\ op = Ok("init")

DiscoveryNext ==
    \/ \E route \in Routes : Connect(route)
    \/ ContextLoad
    \/ Configure
    \/ \E id \in DOMAIN project_cache : Symbols(id)

DiscoverySpec == DiscoveryInit /\ [][DiscoveryNext]_vars

\* C22: with every connected product indexed by a full discovery and the
\* Context loaded, each context path Project.itercontexts gives for a cached
\* project is a key of local of the project's product, each proper ancestor of
\* the project's path is a registered context of it, and neither
\* Context.symbols nor Context.configure fails with a lookup error
C22_ContextsResolve ==
    loaded =>
        /\ \A id \in DOMAIN project_cache :
            LET pj == project_cache[id]
                tb == product_cache[pj.product].tables
                paths == project_itercontexts(pj.factor)
            IN  /\ \A i \in 1..Len(paths) : paths[i] \in DOMAIN tb.local
                /\ \A n \in 1..(Len(pj.factor) - 1) : SubSeq(pj.factor, 1, n) \in tb.contexts
        /\ op.name \in {"Context.symbols", "Context.configure"} =>
            op.err \notin {"KeyError", "LookupError"}

\* C23: an update() right after an update() that completed, on the same
\* directory tree, leaves the four tables equal to those of the first, whether
\* the first started from no roots or from explicit ones
C23_UpdateIdempotent ==
    [][(/\ Did("update")
        /\ op'.name = "update"
        /\ op'.err = "none") => Tables' = Tables]_vars

====
